---- MODULE Spec2Model ----
(***************************************************************************)
(* Model of scraper_updated.py: the listing pipeline of                    *)
(* query_listings_async (two source scrapers gathered concurrently, merge, *)
(* optional sequential VDP enrichment, year filter, final url filter and   *)
(* sort) together with the pure helpers it is built from.                  *)
(*                                                                         *)
(* Python values are modelled as tagged records [ty, s, n]: None, a str    *)
(* (s is its text), an int (n) or "obj" (any other truthy JSON value).     *)
(* A text is a sequence of tokens, so that the regular expressions of the  *)
(* field parsers are modelled by what they match.  A url is a record       *)
(* [kind, host, path, query, frag].                                        *)
(***************************************************************************)
EXTENDS Integers, Sequences, FiniteSets, TLC

\* ------------------------------------------------------------------ bounds
MaxK     == 1    \* max_results_each ranges over 0..MaxK
MaxPrice == 1    \* dollar amounts shown are 1..MaxPrice
MaxMiles == 1    \* odometer readings shown are 0..MaxMiles
MaxPages == 2    \* max_pages ranges over 0..MaxPages
MaxRounds == 3   \* max_rounds (scroll_rounds) ranges over 0..MaxRounds
MaxCount == 2    \* the card counts a page reports are 0..MaxCount
RoundCap == 8    \* the count of scroll rounds is kept up to RoundCap
MaxDepth == 3    \* nesting depth of the JSON values walked

Years == {2015, 2016}            \* model years appearing in titles and markup
TargetYears == {2015}            \* the year argument of the run
BIG   == 1000000000              \* 10**9, the sort key of a missing value

\* ------------------------------------------------------------ Python values
None     == [ty |-> "None", s |-> << >>, n |-> 0]
Int_(n)  == [ty |-> "int",  s |-> << >>, n |-> n]
Str(s)   == [ty |-> "str",  s |-> s,     n |-> 0]
Obj      == [ty |-> "obj",  s |-> << >>, n |-> 1]   \* non-str, non-int, truthy

\* Python truthiness: None, "", 0 are falsy
Truthy(v) ==
  CASE v.ty = "None" -> FALSE
    [] v.ty = "str"  -> v.s # << >>
    [] v.ty = "int"  -> v.n # 0
    [] OTHER         -> TRUE

\* Python `a or b`
Or(a, b) == IF Truthy(a) THEN a ELSE b

\* tokens of a text
Tok(t, n) == [t |-> t, n |-> n]
Usd    == Tok("$", 0)
Num(n) == Tok("num", n)
MilesW == Tok("miles", 0)
Word   == Tok("word", 0)

Min(S) == CHOOSE x \in S : \A y \in S : x <= y

\* ------------------------------------------------------------ field parsers
\* _to_int: int(str(s)) of a value; None when s is None or not a numeral
_to_int(v) ==
  CASE v.ty = "None" -> None
    [] v.ty = "int"  -> v
    [] v.ty = "str"  -> IF Len(v.s) = 1 /\ v.s[1].t = "num" THEN Int_(v.s[1].n) ELSE None
    [] OTHER         -> None

\* the regular expressions raise TypeError on a truthy non-str argument
RaisesOnText(v) == Truthy(v) /\ v.ty # "str"

\* parse_price: first "$" followed by a numeral
parse_price(v) ==
  IF ~Truthy(v) THEN None
  ELSE LET I == {i \in 1..(Len(v.s) - 1) : v.s[i].t = "$" /\ v.s[i+1].t = "num"}
       IN  IF I = {} THEN None ELSE Int_(v.s[Min(I) + 1].n)

\* parse_miles: first numeral followed by "mile(s)"
parse_miles(v) ==
  IF ~Truthy(v) THEN None
  ELSE LET I == {i \in 1..(Len(v.s) - 1) : v.s[i].t = "num" /\ v.s[i+1].t = "miles"}
       IN  IF I = {} THEN None ELSE Int_(v.s[Min(I)].n)

\* parse_year_from_text: first 19xx / 20xx numeral
parse_year_from_text(v) ==
  IF ~Truthy(v) THEN None
  ELSE LET I == {i \in 1..Len(v.s) : v.s[i].t = "num" /\ v.s[i].n >= 1900 /\ v.s[i].n <= 2099}
       IN  IF I = {} THEN None ELSE Int_(v.s[Min(I)].n)

\* ------------------------------------------------------- embedded JSON walk
\* a dictionary key is a str: `lower` is its lower-case form and `form` tells
\* spellings with the same lower-case form apart (0 = the lower-case one)
Key(lower, form) == [lower |-> lower, form |-> form]
Lower(key) == key.lower

\* a parsed JSON value: a dict (keys[j] maps to vals[j]), a list (vals) or
\* anything else (a leaf)
Json(ty, keys, vals) == [ty |-> ty, keys |-> keys, vals |-> vals]
Leaf             == Json("leaf", << >>, << >>)
Dict(keys, vals) == Json("dict", keys, vals)
List(vals)       == Json("list", << >>, vals)

KEYS ==
  {Key("price", 0), Key("listprice", 1), Key("primaryprice", 1), Key("mileage", 0),
   Key("miles", 0), Key("year", 0), Key("make", 0), Key("model", 0), Key("title", 0),
   Key("heading", 0), Key("vdpurl", 1), Key("url", 0), Key("vin", 0)}

\* _walk_find_listings: looks(d)
looks(d) ==
  Cardinality({Lower(d.keys[j]) : j \in 1..Len(d.keys)} \cap {Lower(key) : key \in KEYS}) >= 3

\* _walk_find_listings: rec(x), with the list `out` threaded through;
\* rec_vals is the loop over the values of a dict or the items of a list
RECURSIVE rec(_, _)
RECURSIVE rec_vals(_, _, _)
rec_vals(vs, j, acc) ==
  IF j > Len(vs) THEN acc ELSE rec_vals(vs, j + 1, rec(vs[j], acc))

rec_stop_at_match(x, acc) ==
  IF x.ty = "dict"
  THEN IF looks(x) THEN Append(acc, x) ELSE rec_vals(x.vals, 1, acc)
  ELSE IF x.ty = "list" THEN rec_vals(x.vals, 1, acc)
  ELSE acc

rec(x, acc) ==
  IF x.ty = "dict"
  THEN rec_vals(x.vals, 1, IF looks(x) THEN Append(acc, x) ELSE acc)
  ELSE IF x.ty = "list" THEN rec_vals(x.vals, 1, acc)
  ELSE acc

_walk_find_listings(obj_) == rec(obj_, << >>)

\* --------------------------------------------------------------------- urls
Url(kind, host, path, query, frag) ==
  [kind |-> kind, host |-> host, path |-> path, query |-> query, frag |-> frag]
NoneUrl  == Url("None", "", 0, "", "")
EmptyUrl == Url("empty", "", 0, "", "")        \* the str ""
Rel(path, query, frag)       == Url("rel", "", path, query, frag)
Abs(host, path, query, frag) == Url("abs", host, path, query, frag)

AT_BASE   == "www.autotrader.com"
CARS_BASE == "www.cars.com"

TruthyUrl(u) == u.kind \notin {"None", "empty"}

\* _abs: resolve a reference against the marketplace origin
_abs(base, h) ==
  IF ~TruthyUrl(h) THEN NoneUrl
  ELSE IF h.kind = "abs" THEN h
  ELSE Url("abs", base, h.path, h.query, h.frag)

\* _normalize_url: strip query string and fragment
_normalize_url_keep(u) == u
_normalize_url(u) ==
  IF ~TruthyUrl(u) THEN u
  ELSE [u EXCEPT !.query = "", !.frag = ""]

\* ----------------------------------------------------------------- listings
Listing(source, title, price, miles, year, location, dealer, url) ==
  [source |-> source, title |-> title, price |-> price, miles |-> miles,
   year |-> year, location |-> location, dealer |-> dealer, url |-> url]

\* the truthiness test of a row's url value: `if r.get("url")`, `if not u`
has_url_any(r) == TRUE
has_url(r) == TruthyUrl(r.url)

\* _dedupe_and_trim: the loop over rows, position i
RECURSIVE dedupe_loop(_, _, _, _, _)
dedupe_loop(rows, i, uniq, seen, k) ==
  IF i > Len(rows) THEN uniq
  ELSE LET u == _normalize_url(rows[i].url)
       IN  IF ~has_url([rows[i] EXCEPT !.url = u]) THEN dedupe_loop(rows, i + 1, uniq, seen, k)
           ELSE IF u \in seen THEN dedupe_loop(rows, i + 1, uniq, seen, k)
           ELSE LET uniq2 == Append(uniq, [rows[i] EXCEPT !.url = u])
                IN  IF Len(uniq2) >= k THEN uniq2
                    ELSE dedupe_loop(rows, i + 1, uniq2, seen \cup {u}, k)

_dedupe_and_trim(rows, k) == dedupe_loop(rows, 1, << >>, {}, k)

\* _enforce_year: exact match on the year field
_enforce_year_atleast(rows, target_year) ==
  SelectSeq(rows, LAMBDA r : r.year.ty = "int" /\ r.year.n >= target_year)
_enforce_year(rows, target_year) ==
  SelectSeq(rows, LAMBDA r : r.year = Int_(target_year))

\* ----------------------------------------------------------------- coercion
\* a raw candidate is a dictionary; d.get(key) of an absent key is None
OrUrl(a, b) == IF TruthyUrl(a) THEN a ELSE b

\* _coerce_listing; ok = FALSE when the call raises (TypeError from the year
\* regular expression applied to a truthy non-str title)
_coerce_listing(d, source, base) ==
  LET title    == Or(d.title, d.heading)
      price    == Or(Or(d.price, d.listPrice), d.primaryPrice)
      miles    == Or(d.miles, d.mileage)
      url      == OrUrl(OrUrl(d.url, d.vdpUrl), d.link)
      dealer   == Or(Or(d.dealerName, d.sellerName), d.storeName)
      loc      == Or(d.location, d.city)
      year_val == IF d.year.ty = "str" THEN _to_int(d.year) ELSE d.year
      raises   == ~Truthy(year_val) /\ RaisesOnText(title)
      year_v2  == IF ~Truthy(year_val) THEN parse_year_from_text(title) ELSE year_val
      price2   == IF price.ty = "str" THEN Or(parse_price(price), _to_int(price)) ELSE price
      miles2   == IF miles.ty = "str" THEN Or(parse_miles(miles), _to_int(miles)) ELSE miles
      url2     == IF TruthyUrl(url) THEN _abs(base, url) ELSE url
  IN  [ok  |-> ~raises,
       row |-> Listing(source, title,
                       IF price2.ty = "int" THEN price2 ELSE None,
                       IF miles2.ty = "int" THEN miles2 ELSE None,
                       year_v2, loc, dealer, url2)]

\* ------------------------------------------------------------ site scrapers
Min2(a, b) == IF a <= b THEN a ELSE b

\* a DOM card as read by _first_text / _first_attr: each field a str or None
Card(title, href, price_t, miles_t) ==
  [title |-> title, href |-> href, price_t |-> price_t, miles_t |-> miles_t]

\* scrape_autotrader: the row assembled from one card
at_row(c) ==
  Listing("Autotrader", c.title,
          parse_price(Or(c.price_t, Str(<< >>))), parse_miles(Or(c.miles_t, Str(<< >>))),
          parse_year_from_text(c.title), None, None,
          IF TruthyUrl(c.href) THEN _abs(AT_BASE, c.href) ELSE NoneUrl)

\* scrape_autotrader: the loop over cards, i the 0-based index
RECURSIVE at_dom_loop(_, _, _, _)
at_dom_loop(cards, i, rows, k) ==
  IF i >= Min2(Len(cards), k * 5) THEN rows
  ELSE LET rows2 == Append(rows, at_row(cards[i + 1]))
       IN  IF Len(rows2) >= k THEN rows2 ELSE at_dom_loop(cards, i + 1, rows2, k)

\* scrape_autotrader: the embedded-JSON fallback loop over candidates
RECURSIVE at_json_loop(_, _, _, _)
at_json_loop(cands, j, rows, k) ==
  IF j > Len(cands) THEN [ok |-> TRUE, rows |-> rows]
  ELSE LET c == _coerce_listing(cands[j], "Autotrader", AT_BASE)
       IN  IF ~c.ok THEN [ok |-> FALSE, rows |-> << >>]
           ELSE LET rows2 == Append(rows, c.row)
                IN  IF Len(rows2) >= k THEN [ok |-> TRUE, rows |-> rows2]
                    ELSE at_json_loop(cands, j + 1, rows2, k)

\* scrape_autotrader on a page showing cards and embedding cands
scrape_autotrader(cards, cands, year_, k) ==
  LET rows == at_dom_loop(cards, 0, << >>, k)
      fb   == IF Len(rows) < k THEN at_json_loop(cands, 1, rows, k)
              ELSE [ok |-> TRUE, rows |-> rows]
  IN  IF ~fb.ok THEN [ok |-> FALSE, rows |-> << >>]
      ELSE [ok |-> TRUE, rows |-> _dedupe_and_trim(_enforce_year(fb.rows, year_), k)]

\* scrape_cars: the loop over the cards of one page
RECURSIVE cars_dom_loop(_, _, _, _, _)
cars_dom_loop(cards, i, rows, seen, k) ==
  IF i > Len(cards) THEN [rows |-> rows, seen |-> seen]
  ELSE LET c    == cards[i]
           href == IF TruthyUrl(c.href) THEN _abs(CARS_BASE, c.href) ELSE NoneUrl
           norm == _normalize_url(href)
       IN  IF ~TruthyUrl(norm) \/ norm \in seen THEN cars_dom_loop(cards, i + 1, rows, seen, k)
           ELSE LET rows2 == Append(rows,
                               Listing("Cars.com", c.title,
                                       parse_price(Or(c.price_t, Str(<< >>))),
                                       parse_miles(Or(c.miles_t, Str(<< >>))),
                                       parse_year_from_text(c.title), None, None, norm))
                IN  IF Len(rows2) >= k THEN [rows |-> rows2, seen |-> seen \cup {norm}]
                    ELSE cars_dom_loop(cards, i + 1, rows2, seen \cup {norm}, k)

\* scrape_cars: the embedded-JSON fallback loop of one page
RECURSIVE cars_json_loop(_, _, _, _, _)
cars_json_loop(cands, j, rows, seen, k) ==
  IF j > Len(cands) THEN [ok |-> TRUE, rows |-> rows, seen |-> seen]
  ELSE LET c    == _coerce_listing(cands[j], "Cars.com", CARS_BASE)
           norm == _normalize_url(c.row.url)
       IN  IF ~c.ok THEN [ok |-> FALSE, rows |-> << >>, seen |-> seen]
           ELSE IF ~has_url(c.row) THEN cars_json_loop(cands, j + 1, rows, seen, k)
           ELSE IF norm \in seen THEN cars_json_loop(cands, j + 1, rows, seen, k)
           ELSE LET rows2 == Append(rows, c.row)
                IN  IF Len(rows2) >= k THEN [ok |-> TRUE, rows |-> rows2, seen |-> seen \cup {norm}]
                    ELSE cars_json_loop(cands, j + 1, rows2, seen \cup {norm}, k)

\* scrape_cars: one iteration of the loop over page_no, once the page pg is
\* loaded; brk = TRUE when the iteration ends in a break of the page loop,
\* ok = FALSE when it raises.  cars_page_fallback is the iteration from the
\* embedded-JSON fallback on (f is what its loop made), cars_page_dom the
\* iteration from the end of the card loop on (d is what that loop made)
cars_page_fallback(f) ==
  [ok |-> f.ok, brk |-> FALSE, rows |-> f.rows, seen |-> f.seen]

cars_page_dom(d, pg, k_) ==
  IF Len(d.rows) >= k_
  THEN [ok |-> TRUE, brk |-> TRUE, rows |-> d.rows, seen |-> d.seen]
  ELSE IF Len(d.rows) = 0
  THEN cars_page_fallback(cars_json_loop(pg.cands, 1, d.rows, d.seen, k_))
  ELSE [ok |-> TRUE, brk |-> FALSE, rows |-> d.rows, seen |-> d.seen]

cars_page(pg, page_no_, rows_, seen, k_) ==
  IF Len(pg.cards) = 0 /\ page_no_ > 1
  THEN [ok |-> TRUE, brk |-> TRUE, rows |-> rows_, seen |-> seen]
  ELSE cars_page_dom(cars_dom_loop(pg.cards, 1, rows_, seen, k_), pg, k_)

\* scrape_cars: the loop over page_no; served[page_no] is what that result
\* page shows (cards) and embeds (cands); cars_pages_next goes on from the
\* end of an iteration (p is what the iteration made)
RECURSIVE cars_pages(_, _, _, _, _, _)
RECURSIVE cars_pages_next(_, _, _, _, _)
cars_pages_next(p, served, page_no_, k_, max_pages_) ==
  IF ~p.ok THEN [ok |-> FALSE, rows |-> << >>]
  ELSE IF p.brk THEN [ok |-> TRUE, rows |-> p.rows]
  ELSE cars_pages(served, page_no_ + 1, p.rows, p.seen, k_, max_pages_)

cars_pages(served, page_no_, rows_, seen, k_, max_pages_) ==
  IF page_no_ > max_pages_ THEN [ok |-> TRUE, rows |-> rows_]
  ELSE cars_pages_next(cars_page(served[page_no_], page_no_, rows_, seen, k_),
                       served, page_no_, k_, max_pages_)

\* scrape_cars
scrape_cars(served, year_, k_, max_pages_) ==
  LET r == cars_pages(served, 1, << >>, {}, k_, max_pages_)
  IN  IF ~r.ok THEN [ok |-> FALSE, rows |-> << >>]
      ELSE [ok |-> TRUE, rows |-> _dedupe_and_trim(_enforce_year(r.rows, year_), k_)]

\* ----------------------------------------------------------- VDP enrichment
Raised == [ty |-> "raise", s |-> << >>, n |-> 0]   \* a locator read that raised

\* enrich_vdp: the body between page.content() and return row, given what the
\* page answers: ptxt / mtxt / h1 are the three text_content() reads (Raised
\* when the read raises), html the markup.  ok = FALSE when the body raises.
enrich_fields(row, ptxt, mtxt, h1, html) ==
  LET price  == IF ptxt = Raised THEN row.price ELSE Or(row.price, parse_price(ptxt))
      miles  == IF mtxt = Raised THEN row.miles ELSE Or(row.miles, parse_miles(mtxt))
      title  == IF ~Truthy(row.title) /\ h1.ty = "str" THEN h1 ELSE row.title
      raises == ~Truthy(row.year) /\ RaisesOnText(title)
      year_v == IF ~Truthy(row.year)
                THEN Or(parse_year_from_text(title), parse_year_from_text(html))
                ELSE row.year
      again  == ~Truthy(price) \/ ~Truthy(miles)
      price2 == IF again THEN Or(price, parse_price(html)) ELSE price
      miles2 == IF again THEN Or(miles, parse_miles(html)) ELSE miles
  IN  [ok  |-> ~raises,
       row |-> [row EXCEPT !.price = price2, !.miles = miles2,
                           !.title = title, !.year = year_v]]

\* query_listings_async: the test that skips enrichment of a listing
fully_populated(r) ==
  Truthy(r.price) /\ Truthy(r.miles) /\ Truthy(r.title) /\ Truthy(r.year)

\* ------------------------------------------------------------- final sort
\* the sort key of query_listings_async
sort_key(r) ==
  << IF r.price = None THEN BIG ELSE r.price.n,
     IF Truthy(r.miles) THEN r.miles.n ELSE BIG >>

KeyLeq(a, b) == a[1] < b[1] \/ (a[1] = b[1] /\ a[2] <= b[2])

\* list.sort(key=...): stable, ascending
RECURSIVE sort_rows(_)
sort_rows(rows) ==
  IF rows = << >> THEN << >>
  ELSE LET n    == Len(rows)
           init == sort_rows(SubSeq(rows, 1, n - 1))
           r    == rows[n]
           pos  == Cardinality({j \in 1..Len(init) : KeyLeq(sort_key(init[j]), sort_key(r))})
       IN  SubSeq(init, 1, pos) \o << r >> \o SubSeq(init, pos + 1, Len(init))

\* query_listings_async: drop rows without url, sort
final_rows(rows) == sort_rows(SelectSeq(rows, has_url))

\* --------------------------------------------------- what the sites serve
CardTitles == {None} \cup {Str(<< Num(y), Word >>) : y \in Years}
CardPrices == {None} \cup {Str(<< Usd, Num(p) >>) : p \in 1..MaxPrice}
CardMiles  == {None} \cup {Str(<< Num(m), MilesW >>) : m \in 0..MaxMiles}
Hrefs      == {NoneUrl, Rel(1, "", ""), Rel(1, "src=ads", "top"),
               Abs(CARS_BASE, 1, "src=ads", "")}
Cards      == {Card(t, h, p, m) : t \in CardTitles, h \in Hrefs, p \in CardPrices, m \in CardMiles}

EmptyCand ==
  [title |-> None, heading |-> None, price |-> None, listPrice |-> None,
   primaryPrice |-> None, miles |-> None, mileage |-> None, year |-> None,
   dealerName |-> None, sellerName |-> None, storeName |-> None,
   location |-> None, city |-> None,
   url |-> NoneUrl, vdpUrl |-> NoneUrl, link |-> NoneUrl]

\* listing-like dictionaries found in embedded JSON
JsonCands ==
  {[EmptyCand EXCEPT !.listPrice = Str(<< Usd, Num(MaxPrice) >>),
                     !.mileage = Str(<< Num(MaxMiles), MilesW >>),
                     !.year = Str(<< Num(y) >>), !.url = Rel(1, "", "")] : y \in Years}
  \cup {[EmptyCand EXCEPT !.year = Int_(y), !.price = Int_(0),
                          !.sellerName = Str(<< Word >>), !.city = Str(<< Word >>),
                          !.vdpUrl = Abs(CARS_BASE, 1, "src=ads", "")] : y \in Years}
  \cup {[EmptyCand EXCEPT !.title = Obj, !.price = Int_(MaxPrice), !.miles = Int_(MaxMiles),
                          !.url = Rel(2, "", "")],
        [EmptyCand EXCEPT !.heading = Str(<< Num(2015), Word >>), !.price = Int_(MaxPrice),
                          !.link = EmptyUrl]}

\* a result page: the cards it shows and the dictionaries its markup embeds.
\* The pages considered show one card, or no card and at most one dictionary.
Page(cards, cands) == [cards |-> cards, cands |-> cands]
PageContents ==
  {Page(<< >>, << >>)}
  \cup {Page(<< c >>, << >>) : c \in Cards}
  \cup {Page(<< >>, << d >>) : d \in JsonCands}

SelPriceReads == {Raised, None} \cup {Str(<< Usd, Num(p) >>) : p \in 1..MaxPrice}
SelMilesReads == {Raised, None} \cup {Str(<< Num(m), MilesW >>) : m \in 1..MaxMiles}
H1Reads       == {Raised} \cup {Str(<< Num(y), Word >>) : y \in Years}
Htmls         == {Str(<< Word >>)}
                 \cup {Str(<< Num(y), Word, Usd, Num(MaxPrice), Num(MaxMiles), MilesW >>) : y \in Years}

\* the key tuples of the dictionaries walked: three vocabulary names; three
\* vocabulary names in other spellings and a foreign key; two vocabulary
\* names and a foreign key; one vocabulary name in three spellings; a wrapper
KeySeqs ==
  {<< Key("price", 0), Key("miles", 0), Key("year", 0) >>,
   << Key("price", 2), Key("listprice", 1), Key("vin", 2), Key("id", 0) >>,
   << Key("price", 0), Key("miles", 0), Key("id", 0) >>,
   << Key("price", 0), Key("price", 1), Key("price", 2) >>,
   << Key("items", 0) >>}

\* dictionaries with one value of V, at position 1 or 3, and leaves elsewhere
DictsOver(V) ==
  {Dict(ks, [j \in 1..Len(ks) |-> IF j = p THEN v ELSE Leaf]) :
     ks \in KeySeqs, p \in {1, 3}, v \in V}

\* lists of no item, of one value of V, or of a value of V and a flat
\* listing-like dict
FlatListing ==
  Dict(<< Key("price", 0), Key("miles", 0), Key("year", 0) >>, << Leaf, Leaf, Leaf >>)
ListsOver(V) ==
  {List(<< >>)} \cup {List(<< v >>) : v \in V} \cup {List(<< v, FlatListing >>) : v \in V}

RECURSIVE JsonValues(_)
JsonValues(depth) ==
  IF depth = 0 THEN {Leaf}
  ELSE LET V == JsonValues(depth - 1)
       IN  V \cup DictsOver(V) \cup ListsOver(V)

\* ------------------------------------------------------------------- state
Sites == << "autotrader", "cars" >>        \* launch order of the tasks
SiteSet == {Sites[n] : n \in 1..Len(Sites)}

VARIABLES
  year,        \* the requested target year
  k,           \* max_results_each
  enrich,      \* the enrich flag
  task,        \* per site: "running", "returned" or "failed"
  results,     \* per site: the rows its task returned
  finished,    \* the sites in the order their tasks completed
  pc,          \* position of query_listings_async
  out,         \* query_listings_async: out
  enriched,    \* query_listings_async: enriched
  i,           \* query_listings_async: position in out of the enrichment loop
  pages,       \* context.pages: the open pages
  vdp,         \* enrich_vdp: "returning" or "raising" when it reaches finally
  pre,         \* history: the row as it was when enrich_vdp was called
  last,        \* history: how the last loop iteration ended
  cand,        \* a raw candidate handed to _coerce_listing
  cres,        \* what _coerce_listing made of it
  spc,         \* position of a source scraper run step by step
  shown,       \* the result page the scraper's browser page has loaded
  rows,        \* scrape_autotrader / scrape_cars: rows
  seen_urls,   \* scrape_cars: seen_urls
  page_no,     \* scrape_cars: page_no, the result pages requested so far
  max_pages,   \* scrape_cars: max_pages
  new_rows,    \* history: the rows the last processed result page added
  max_rounds,  \* _autotrader_deep_scroll: max_rounds
  last_n,      \* _autotrader_deep_scroll: last_n
  stable,      \* _autotrader_deep_scroll: stable
  scrolling,   \* _autotrader_deep_scroll: TRUE while the call has not returned
  rounds,      \* history: scroll rounds performed, counted up to RoundCap
  obj,         \* _walk_find_listings: the parsed JSON value
  found,       \* _walk_find_listings: the list it returned
  walked       \* TRUE once _walk_find_listings has returned

scrape_vars == << spc, shown, rows, seen_urls, page_no, max_pages, new_rows >>
scroll_vars == << max_rounds, last_n, stable, scrolling, rounds >>
walk_vars   == << obj, found, walked >>

vars == << year, k, enrich, task, results, finished,
           pc, out, enriched, i, pages, vdp, pre, last, cand, cres,
           scrape_vars, scroll_vars, walk_vars >>

\* the pages of the browser context: the two scraper pages, and the page
\* enrich_vdp opens for the listing at position n of out
Pg(kind, n) == [kind |-> kind, n |-> n]
page_at     == Pg("page_at", 0)
page_cars   == Pg("page_cars", 0)
vdp_page(n) == Pg("vdp", n)

NoRow == Listing("", None, None, None, None, None, None, NoneUrl)
NotCoerced == [called |-> FALSE, ok |-> TRUE, row |-> NoRow]

\* no scraper is being run step by step
ScrapeIdle ==
  /\ spc = "idle" /\ shown = Page(<< >>, << >>) /\ rows = << >>
  /\ seen_urls = {} /\ page_no = 0 /\ max_pages = 0 /\ new_rows = 0

\* _autotrader_deep_scroll is not being run
ScrollIdle ==
  /\ max_rounds = 0 /\ last_n = -1 /\ stable = 0 /\ scrolling = FALSE /\ rounds = 0

\* _walk_find_listings is not being run
WalkIdle ==
  /\ obj = Leaf /\ found = << >> /\ walked = FALSE

Init ==
  /\ ScrapeIdle /\ ScrollIdle /\ WalkIdle
  /\ year \in TargetYears
  /\ k \in 0..MaxK
  /\ enrich \in BOOLEAN
  /\ task = [s \in SiteSet |-> "running"]
  /\ results = [s \in SiteSet |-> << >>]
  /\ finished = << >>
  /\ pc = "gather"
  /\ out = << >>
  /\ enriched = << >>
  /\ i = 1
  /\ pages = {page_at, page_cars}
  /\ vdp = "none"
  /\ pre = NoRow
  /\ last = "none"
  /\ cand = EmptyCand
  /\ cres = NotCoerced

main_vars    == << pc, out, enriched, i, pages, vdp, pre, last >>
params       == << year, k, enrich, cand, cres, scrape_vars, scroll_vars, walk_vars >>

\* the scrape_autotrader task runs to its return (or raises in the fallback)
AtScrape ==
  /\ pc = "gather" /\ task["autotrader"] = "running"
  /\ \E pg \in PageContents :
       LET r == scrape_autotrader(pg.cards, pg.cands, year, k)
       IN  /\ task' = [task EXCEPT !["autotrader"] = IF r.ok THEN "returned" ELSE "failed"]
           /\ results' = [results EXCEPT !["autotrader"] = r.rows]
  /\ finished' = Append(finished, "autotrader")
  /\ UNCHANGED << params, main_vars >>

\* the scrape_cars task runs to its return (or raises in the fallback); the
\* run asks for one result page
CarsScrape ==
  /\ pc = "gather" /\ task["cars"] = "running"
  /\ \E pg \in PageContents :
       LET r == scrape_cars(<< pg >>, year, k, 1)
       IN  /\ task' = [task EXCEPT !["cars"] = IF r.ok THEN "returned" ELSE "failed"]
           /\ results' = [results EXCEPT !["cars"] = r.rows]
  /\ finished' = Append(finished, "cars")
  /\ UNCHANGED << params, main_vars >>

\* a scraper task raises (navigation error, page.content() failing, ...)
ScraperError(s) ==
  /\ pc = "gather" /\ task[s] = "running"
  /\ task' = [task EXCEPT ![s] = "failed"]
  /\ finished' = Append(finished, s)
  /\ UNCHANGED << params, results, main_vars >>

\* query_listings_async: the loop over the gathered results
RECURSIVE merge_results_abort(_, _)
merge_results_abort(n, acc) ==
  IF n > Len(Sites) THEN acc
  ELSE IF task[Sites[n]] = "failed" THEN acc
  ELSE merge_results_abort(n + 1, acc \o results[Sites[n]])

RECURSIVE merge_results_completion(_, _)
merge_results_completion(n, acc) ==
  IF n > Len(finished) THEN acc
  ELSE IF task[finished[n]] = "failed" THEN merge_results_completion(n + 1, acc)
  ELSE merge_results_completion(n + 1, acc \o results[finished[n]])

RECURSIVE merge_results(_, _)
merge_results(n, acc) ==
  IF n > Len(Sites) THEN acc
  ELSE IF task[Sites[n]] = "failed" THEN merge_results(n + 1, acc)
  ELSE merge_results(n + 1, acc \o results[Sites[n]])

\* gather has returned: every task is over; merge its results
MergeResultsNoWait ==
  /\ pc = "gather"
  /\ out' = merge_results(1, << >>)
  /\ pc' = "cleanup"
  /\ UNCHANGED << params, task, results, finished, enriched, i, pages, vdp, pre, last >>

MergeResults ==
  /\ pc = "gather"
  /\ \A s \in SiteSet : task[s] # "running"
  /\ out' = merge_results(1, << >>)
  /\ pc' = "cleanup"
  /\ UNCHANGED << params, task, results, finished, enriched, i, pages, vdp, pre, last >>

\* finally: close every page of the context
ClosePages ==
  /\ pc = "cleanup"
  /\ pages' = {}
  /\ pc' = IF enrich THEN "enrich" ELSE "finish"
  /\ UNCHANGED << params, task, results, finished, out, enriched, i, vdp, pre, last >>

\* enrichment loop: a fully populated row is kept as it is
EnrichSkip ==
  /\ pc = "enrich" /\ i <= Len(out)
  /\ fully_populated(out[i])
  /\ enriched' = Append(enriched, out[i])
  /\ i' = i + 1
  /\ last' = "skipped"
  /\ UNCHANGED << params, task, results, finished, pc, out, pages, vdp, pre >>

\* enrichment loop: enrich_vdp is called and opens its page (or returns the
\* row at once when it has no url)
EnrichOpenNoAwait ==
  /\ pc = "enrich" /\ i <= Len(out)
  /\ ~fully_populated(out[i])
  /\ pre' = out[i]
  /\ enriched' = Append(enriched, out[i])
  /\ i' = i + 1
  /\ last' = "returned"
  /\ pages' = IF TruthyUrl(out[i].url) THEN pages \cup {vdp_page(i)} ELSE pages
  /\ UNCHANGED << params, task, results, finished, out, pc, vdp >>

EnrichOpen ==
  /\ pc = "enrich" /\ i <= Len(out)
  /\ ~fully_populated(out[i])
  /\ pre' = out[i]
  /\ IF ~TruthyUrl(out[i].url)
     THEN /\ enriched' = Append(enriched, out[i])
          /\ i' = i + 1
          /\ last' = "returned"
          /\ UNCHANGED << pc, pages, vdp >>
     ELSE /\ pages' = pages \cup {vdp_page(i)}
          /\ pc' = "vdp_body"
          /\ vdp' = "none"
          /\ UNCHANGED << enriched, i, last >>
  /\ UNCHANGED << params, task, results, finished, out >>

\* enrichment loop: context.new_page() raises inside enrich_vdp
EnrichOpenFailDrop ==
  /\ pc = "enrich" /\ i <= Len(out)
  /\ ~fully_populated(out[i])
  /\ TruthyUrl(out[i].url)
  /\ pre' = out[i]
  /\ i' = i + 1
  /\ last' = "open_failed"
  /\ UNCHANGED << params, task, results, finished, pc, out, pages, vdp, enriched >>

EnrichOpenFail ==
  /\ pc = "enrich" /\ i <= Len(out)
  /\ ~fully_populated(out[i])
  /\ TruthyUrl(out[i].url)
  /\ pre' = out[i]
  /\ enriched' = Append(enriched, out[i])
  /\ i' = i + 1
  /\ last' = "open_failed"
  /\ UNCHANGED << params, task, results, finished, pc, out, pages, vdp >>

\* enrich_vdp: the try body runs to return row; row.update mutates the dict
\* that out holds
VdpBody ==
  /\ pc = "vdp_body"
  /\ \E ptxt \in SelPriceReads, mtxt \in SelMilesReads, h1 \in H1Reads, html \in Htmls :
       LET e == enrich_fields(out[i], ptxt, mtxt, h1, html)
       IN  /\ out' = [out EXCEPT ![i] = IF e.ok THEN e.row ELSE out[i]]
           /\ vdp' = IF e.ok THEN "returning" ELSE "raising"
  /\ pc' = "vdp_close"
  /\ UNCHANGED << params, task, results, finished, enriched, i, pages, pre, last >>

\* enrich_vdp: goto, _scroll or page.content() raises before the row is touched
VdpBodyError ==
  /\ pc = "vdp_body"
  /\ vdp' = "raising"
  /\ pc' = "vdp_close"
  /\ UNCHANGED << params, task, results, finished, out, enriched, i, pages, pre, last >>

\* enrich_vdp: finally page.close(), which may itself raise; then the caller
\* appends the returned row, or the row it holds when the call raised
VdpCloseNoFinally ==
  /\ pc = "vdp_close"
  /\ pages' = IF vdp = "raising" THEN pages ELSE pages \ {vdp_page(i)}
  /\ \E close_raises \in BOOLEAN :
       last' = IF vdp = "raising" \/ close_raises THEN "raised" ELSE "returned"
  /\ enriched' = Append(enriched, out[i])
  /\ i' = i + 1
  /\ vdp' = "none"
  /\ pc' = "enrich"
  /\ UNCHANGED << params, task, results, finished, out, pre >>

VdpClose ==
  /\ pc = "vdp_close"
  /\ pages' = pages \ {vdp_page(i)}
  /\ \E close_raises \in BOOLEAN :
       last' = IF vdp = "raising" \/ close_raises THEN "raised" ELSE "returned"
  /\ enriched' = Append(enriched, out[i])
  /\ i' = i + 1
  /\ vdp' = "none"
  /\ pc' = "enrich"
  /\ UNCHANGED << params, task, results, finished, out, pre >>

\* after the enrichment loop: out = enriched, year filter again
EnrichDone ==
  /\ pc = "enrich" /\ i > Len(out)
  /\ out' = _enforce_year(enriched, year)
  /\ pc' = "finish"
  /\ pre' = NoRow /\ last' = "none"
  /\ UNCHANGED << params, task, results, finished, enriched, i, pages, vdp >>

\* context.close(); drop rows without url; sort; return out
Finish ==
  /\ pc = "finish"
  /\ out' = final_rows(out)
  /\ pages' = {}
  /\ pc' = "done"
  /\ UNCHANGED << params, task, results, finished, enriched, i, vdp, pre, last >>

Next ==
  \/ AtScrape
  \/ CarsScrape
  \/ \E s \in SiteSet : ScraperError(s)
  \/ MergeResults
  \/ ClosePages
  \/ EnrichSkip
  \/ EnrichOpen
  \/ EnrichOpenFail
  \/ VdpBody
  \/ VdpBodyError
  \/ VdpClose
  \/ EnrichDone
  \/ Finish

Spec == Init /\ [][Next]_vars

\* ------------------------------------------------- _coerce_listing alone
\* raw candidates: what embedded JSON may hold under the keys read
RawCandidates ==
  {[EmptyCand EXCEPT !.title = t, !.heading = h, !.price = p, !.year = y, !.url = u] :
     t \in {None, Str(<< Num(2015), Word >>), Int_(7), Obj},
     h \in {None, Str(<< Word >>)},
     p \in {None, Int_(MaxPrice), Str(<< Usd, Num(MaxPrice) >>), Str(<< Num(MaxPrice) >>)},
     y \in {None, Int_(2015), Str(<< Num(2015) >>), Str(<< Word >>)},
     u \in {NoneUrl, EmptyUrl, Rel(1, "src=ads", "")}}

InitCoerce ==
  /\ cand \in RawCandidates
  /\ cres = NotCoerced
  /\ year = 2015 /\ k = 1 /\ enrich = FALSE
  /\ task = [s \in SiteSet |-> "running"]
  /\ results = [s \in SiteSet |-> << >>] /\ finished = << >>
  /\ pc = "gather" /\ out = << >> /\ enriched = << >> /\ i = 1
  /\ pages = {} /\ vdp = "none" /\ pre = NoRow /\ last = "none"
  /\ ScrapeIdle /\ ScrollIdle /\ WalkIdle

\* _coerce_listing is called on the candidate, as the Cars.com fallback does
Coerce ==
  /\ ~cres.called
  /\ LET c == _coerce_listing(cand, "Cars.com", CARS_BASE)
     IN  cres' = [called |-> TRUE, ok |-> c.ok, row |-> IF c.ok THEN c.row ELSE NoRow]
  /\ UNCHANGED << year, k, enrich, cand, task, results, finished, main_vars,
                  scrape_vars, scroll_vars, walk_vars >>

NextCoerce == Coerce

SpecCoerce == InitCoerce /\ [][NextCoerce]_vars

\* ------------------------------------------- a source scraper step by step
\* query_listings_async has not gathered anything
MainIdle ==
  /\ task = [s \in SiteSet |-> "running"]
  /\ results = [s \in SiteSet |-> << >>] /\ finished = << >>
  /\ pc = "gather" /\ out = << >> /\ enriched = << >> /\ i = 1
  /\ pages = {} /\ vdp = "none" /\ pre = NoRow /\ last = "none"
  /\ enrich = FALSE /\ cand = EmptyCand /\ cres = NotCoerced

main_idle == << year, k, enrich, task, results, finished, main_vars, cand, cres,
               scroll_vars, walk_vars >>

InitScrape ==
  /\ MainIdle /\ ScrollIdle /\ WalkIdle
  /\ year \in TargetYears
  /\ k \in 0..MaxK
  /\ max_pages \in 0..MaxPages
  /\ spc \in {"at_start", "cars_next"}
  /\ shown = Page(<< >>, << >>) /\ rows = << >>
  /\ seen_urls = {} /\ page_no = 0 /\ new_rows = 0

\* scrape_autotrader: page.goto and the deep scroll; the page shows its cards
AtGoto ==
  /\ spc = "at_start"
  /\ shown' \in PageContents
  /\ spc' = "at_loaded"
  /\ UNCHANGED << main_idle, rows, seen_urls, page_no, max_pages, new_rows >>

\* scrape_autotrader: the loop over the cards
AtDom ==
  /\ spc = "at_loaded"
  /\ rows' = at_dom_loop(shown.cards, 0, << >>, k)
  /\ spc' = "at_dom_done"
  /\ UNCHANGED << main_idle, shown, seen_urls, page_no, max_pages, new_rows >>

\* scrape_autotrader: the embedded-JSON fallback, entered when rows is short
AtFallback ==
  /\ spc = "at_dom_done"
  /\ LET fb == IF Len(rows) < k THEN at_json_loop(shown.cands, 1, rows, k)
               ELSE [ok |-> TRUE, rows |-> rows]
     IN  /\ rows' = fb.rows
         /\ spc' = IF fb.ok THEN "at_tail" ELSE "failed"
  /\ UNCHANGED << main_idle, shown, seen_urls, page_no, max_pages, new_rows >>

\* scrape_autotrader: year filter, dedupe and trim, return rows
AtTail ==
  /\ spc = "at_tail"
  /\ rows' = _dedupe_and_trim(_enforce_year(rows, year), k)
  /\ spc' = "returned"
  /\ UNCHANGED << main_idle, shown, seen_urls, page_no, max_pages, new_rows >>

\* scrape_cars: the page loop starts its next iteration and navigates to
\* result page page_no
CarsGoto ==
  /\ spc = "cars_next" /\ page_no < max_pages
  /\ page_no' = page_no + 1
  /\ shown' \in PageContents
  /\ spc' = "cars_loaded"
  /\ UNCHANGED << main_idle, rows, seen_urls, max_pages, new_rows >>

\* scrape_cars: the rest of the iteration: the cards of the page, then the
\* embedded-JSON fallback while rows is empty
CarsPage ==
  /\ spc = "cars_loaded"
  /\ \E p \in {cars_page(shown, page_no, rows, seen_urls, k)} :
         /\ rows' = p.rows
         /\ seen_urls' = p.seen
         /\ new_rows' = Len(p.rows) - Len(rows)
         /\ spc' = IF ~p.ok THEN "failed" ELSE IF p.brk THEN "cars_tail" ELSE "cars_next"
  /\ UNCHANGED << main_idle, shown, page_no, max_pages >>

\* scrape_cars: range(1, max_pages + 1) is exhausted
CarsLoopEnd ==
  /\ spc = "cars_next" /\ page_no >= max_pages
  /\ spc' = "cars_tail"
  /\ UNCHANGED << main_idle, shown, rows, seen_urls, page_no, max_pages, new_rows >>

\* scrape_cars: year filter, dedupe and trim, return rows
CarsTail ==
  /\ spc = "cars_tail"
  /\ rows' = _dedupe_and_trim(_enforce_year(rows, year), k)
  /\ spc' = "returned"
  /\ UNCHANGED << main_idle, shown, seen_urls, page_no, max_pages, new_rows >>

NextScrape ==
  \/ AtGoto
  \/ AtDom
  \/ AtFallback
  \/ AtTail
  \/ CarsGoto
  \/ CarsPage
  \/ CarsLoopEnd
  \/ CarsTail

SpecScrape == InitScrape /\ [][NextScrape]_vars

\* ------------------------------------------------ _autotrader_deep_scroll
main_idle_scroll == << year, k, enrich, task, results, finished, main_vars, cand, cres,
                      scrape_vars, walk_vars >>

InitScroll ==
  /\ MainIdle /\ ScrapeIdle /\ WalkIdle
  /\ year = 2015 /\ k = 1
  /\ max_rounds \in 0..MaxRounds
  /\ last_n = -1 /\ stable = 0 /\ scrolling = TRUE /\ rounds = 0

\* one iteration of the while loop: scroll, read the card count n (0 when the
\* read raises), compare it with last_n
ScrollRound ==
  /\ scrolling /\ stable < max_rounds
  /\ \E n \in 0..MaxCount :
       IF n = last_n
       THEN stable' = stable + 1 /\ last_n' = last_n
       ELSE stable' = 0 /\ last_n' = n
  /\ rounds' = IF rounds < RoundCap THEN rounds + 1 ELSE rounds
  /\ UNCHANGED << main_idle_scroll, max_rounds, scrolling >>

\* the while condition fails: the call returns
ScrollReturn ==
  /\ scrolling /\ ~(stable < max_rounds)
  /\ scrolling' = FALSE
  /\ UNCHANGED << main_idle_scroll, max_rounds, last_n, stable, rounds >>

NextScroll == ScrollRound \/ ScrollReturn

\* the coroutine is awaited by its only caller: it keeps running
SpecScroll == InitScroll /\ [][NextScroll]_vars /\ WF_vars(NextScroll)

\* ---------------------------------------------------- _walk_find_listings
InitWalk ==
  /\ MainIdle /\ ScrapeIdle /\ ScrollIdle
  /\ year = 2015 /\ k = 1
  /\ obj \in JsonValues(MaxDepth)
  /\ found = << >> /\ walked = FALSE

\* _walk_find_listings(obj) is called and returns
Walk ==
  /\ ~walked
  /\ found' = _walk_find_listings(obj)
  /\ walked' = TRUE
  /\ UNCHANGED << year, k, enrich, task, results, finished, main_vars, cand, cres,
                  scrape_vars, scroll_vars, obj >>

NextWalk == Walk

SpecWalk == InitWalk /\ [][NextWalk]_vars

\* ------------------------------------------------------------------ claims
Range(seq) == {seq[n] : n \in 1..Len(seq)}

\* C1: the returned list holds at most one listing per normalized url
C1_OnePerNormalizedUrl ==
  pc = "done" =>
    \A a, b \in 1..Len(out) :
      a # b => _normalize_url(out[a].url) # _normalize_url(out[b].url)

\* C2: every listing of the returned list has exactly the requested year
C2_ExactYear ==
  pc = "done" => \A r \in Range(out) : r.year = Int_(year)

\* C2 witness: an enriching run with a failed scraper returns a listing
C2_Witness ==
  /\ pc = "done" /\ enrich /\ Len(out) >= 1
  /\ \E s \in SiteSet : task[s] = "failed"

\* C3: a field that was not None when enrich_vdp was called has the same
\* value in the row enrich_vdp returns
C3_BackfillMonotonic ==
  (pc = "enrich" /\ last = "returned") =>
    LET r == enriched[Len(enriched)]
    IN  /\ pre.price # None => r.price = pre.price
        /\ pre.miles # None => r.miles = pre.miles
        /\ pre.title # None => r.title = pre.title
        /\ pre.year  # None => r.year  = pre.year

\* C4: the returned list ascends by (price, miles), a missing value counting
\* as larger than any concrete one
OrInfLess(x, y) == x # None /\ (y = None \/ x.n < y.n)
C4_SortedNullAsInfinity ==
  pc = "done" =>
    \A a, b \in 1..Len(out) :
      a < b => \/ OrInfLess(out[a].price, out[b].price)
               \/ /\ out[a].price = out[b].price
                  /\ ~OrInfLess(out[b].miles, out[a].miles)

\* C5: when enrich_vdp raises, the listing kept is the listing as it was
\* before the call, and the loop goes on to the next listing
C5_FailureKeepsListing ==
  (last \in {"raised", "open_failed"} /\ pc \in {"enrich", "finish"}) =>
    /\ enriched[Len(enriched)] = pre
    /\ i = Len(enriched) + 1

\* C6: a source scraper returns at most k listings
C6_AtMostK ==
  \A s \in SiteSet : task[s] = "returned" => Len(results[s]) <= k

\* C7: a failed scraper contributes no rows; the merged list is the rows of
\* the scrapers that returned, the list returned without enrichment is what
\* the final filter and sort make of those rows alone, and with enrichment
\* every returned listing is one of those rows
RowsOfReturned ==
  (IF task["autotrader"] = "returned" THEN results["autotrader"] ELSE << >>)
  \o (IF task["cars"] = "returned" THEN results["cars"] ELSE << >>)
C7_FailureIsolated ==
  /\ pc = "cleanup" => out = RowsOfReturned
  /\ (pc = "done" /\ ~enrich) => out = final_rows(RowsOfReturned)
  /\ pc = "done" =>
       \A r \in Range(out) :
         \E q \in Range(RowsOfReturned) : q.url = r.url /\ q.source = r.source

\* C7 witness: one task failed and the rows of the other are returned
C7_Witness ==
  /\ pc = "done" /\ Len(out) >= 1
  /\ \E s \in SiteSet : task[s] = "failed"
  /\ \E s \in SiteSet : task[s] = "returned" /\ Len(results[s]) >= 1

\* C8: every listing of the returned list has a url that is neither None
\* nor empty
C8_UrlPresent ==
  pc = "done" => \A r \in Range(out) : r.url.kind \in {"abs", "rel"}

\* C8 witness: two listings are returned, the first with an absolute url
C8_Witness ==
  pc = "done" /\ Len(out) = 2 /\ out[1].url.kind = "abs"

\* C9: once enrich_vdp is over, the page it opened is closed
C9_PageReleased ==
  pc \in {"enrich", "finish", "done"} => \A p \in pages : p.kind # "vdp"

\* C9 witness: enrich_vdp raised after opening its page, and the page is closed
C9_Witness ==
  pc = "enrich" /\ last = "raised" /\ vdp_page(i - 1) \notin pages

\* C10: _coerce_listing raises on no candidate
C10_CoerceNeverFails ==
  cres.called => cres.ok

\* C11: every row held in a scraper's rows list, in the merged list and in
\* the enriched list has a url that is not None
C11_NoUrlLessRowHeld ==
  \A r \in Range(rows) \cup Range(out) \cup Range(enriched) : r.url # NoneUrl

\* C12: every listing of the returned list stores its url with an empty query
\* string and an empty fragment
C12_StoredUrlNormalized ==
  pc = "done" => \A r \in Range(out) : r.url.query = "" /\ r.url.frag = ""

\* C12 witness: the returned list holds an Autotrader listing taken from
\* embedded JSON whose vdpUrl carried a query string, and a Cars.com listing
\* taken from a card
C12_Witness ==
  /\ pc = "done"
  /\ \E r \in Range(out) :
       r.source = "Autotrader" /\ r.title = None /\ r.url.host = CARS_BASE
  /\ \E r \in Range(out) : r.source = "Cars.com" /\ r.title # None

\* C13: whatever card counts the page reports, _autotrader_deep_scroll
\* returns
C13_ScrollTerminates ==
  <>(~scrolling)

\* C14: scrape_cars requests at most max_pages result pages, and navigates to
\* a further result page only while rows is below the cap and the page before
\* added at least one row
C14_PagesBoundedEarlyStop ==
  /\ page_no <= max_pages
  /\ (spc = "cars_loaded" /\ page_no > 1) => (Len(rows) < k /\ new_rows > 0)

\* C15: a listing is handed to enrich_vdp if and only if one of price, miles,
\* title, year is None, and each listing takes one turn of the loop
AllPresent(r) ==
  r.price # None /\ r.miles # None /\ r.title # None /\ r.year # None
C15_EnrichIffIncomplete ==
  /\ pc \in {"vdp_body", "vdp_close"} => ~AllPresent(pre)
  /\ (pc = "enrich" /\ last \in {"returned", "raised", "open_failed"}) => ~AllPresent(pre)
  /\ (pc = "enrich" /\ last = "skipped") => AllPresent(enriched[Len(enriched)])
  /\ pc = "enrich" => Len(enriched) = i - 1

\* C16: once gather is over no scraper task is running, and past the cleanup
\* both scraper pages are closed
C16_JoinBarrier ==
  /\ pc # "gather" => \A s \in SiteSet : task[s] \in {"returned", "failed"}
  /\ pc \notin {"gather", "cleanup"} => (page_at \notin pages /\ page_cars \notin pages)

\* C16 witness: enrichment visits a listing after one task failed and the
\* other returned
C16_Witness ==
  /\ pc = "vdp_body"
  /\ task["autotrader"] = "failed" /\ task["cars"] = "returned"
  /\ page_at \notin pages /\ page_cars \notin pages

\* C17: at most one detail page is open; during the visit of listing i it is
\* the page of listing i, and between visits none is open
C17_EnrichmentSequential ==
  LET open == {p \in pages : p.kind = "vdp"}
  IN  /\ Cardinality(open) <= 1
      /\ pc \in {"vdp_body", "vdp_close"} => open = {vdp_page(i)}
      /\ pc \notin {"vdp_body", "vdp_close"} => open = {}

\* C17 witness: the visit of the second listing has begun after the visit of
\* the first one raised, and only its page is open
C17_Witness ==
  /\ pc = "vdp_body" /\ i = 2 /\ last = "raised"
  /\ {p \in pages : p.kind = "vdp"} = {vdp_page(2)}

\* C18: _walk_find_listings returns exactly the dictionaries found at any
\* depth of the value whose keys match, case-insensitively, at least three
\* names of the vocabulary, those nested in a returned dictionary included,
\* each once per occurrence
RECURSIVE Inside(_)
Inside(x) == {x} \cup UNION {Inside(x.vals[j]) : j \in 1..Len(x.vals)}
Vocabulary ==
  {"price", "listprice", "primaryprice", "mileage", "miles", "year", "make",
   "model", "title", "heading", "vdpurl", "url", "vin"}
ListingLike(d) ==
  /\ d.ty = "dict"
  /\ Cardinality({w \in Vocabulary : \E j \in 1..Len(d.keys) : d.keys[j].lower = w}) >= 3
RECURSIVE Occurrences(_)
RECURSIVE SumOccurrences(_, _)
SumOccurrences(vs, j) ==
  IF j > Len(vs) THEN 0 ELSE Occurrences(vs[j]) + SumOccurrences(vs, j + 1)
Occurrences(x) ==
  (IF ListingLike(x) THEN 1 ELSE 0) + SumOccurrences(x.vals, 1)
C19_OrderIndependent ==
  /\ pc = "cleanup" => out = results["autotrader"] \o results["cars"]
  /\ pc = "done" =>
       \A a, b \in 1..Len(out) :
         (a < b /\ sort_key(out[a]) = sort_key(out[b])) =>
           ~(out[a].source = "Cars.com" /\ out[b].source = "Autotrader")

\* C19 witness: the Cars.com task completed first, and the returned list is
\* an Autotrader listing followed by a Cars.com listing of equal sort key
C19_Witness ==
  /\ pc = "done" /\ finished = << "cars", "autotrader" >>
  /\ Len(out) = 2 /\ sort_key(out[1]) = sort_key(out[2])
  /\ out[1].source = "Autotrader" /\ out[2].source = "Cars.com"

\* C20: during the enrichment pass every listing keeps its source, location,
\* dealer and url, and the enriched list is, position by position, the merged
\* list: as long at the end of the pass, and with the same urls
Merged == results["autotrader"] \o results["cars"]
SameIdentity(r, q) ==
  r.source = q.source /\ r.location = q.location /\ r.dealer = q.dealer /\ r.url = q.url
C20_EnrichmentFrame ==
  pc \in {"enrich", "vdp_body", "vdp_close"} =>
    /\ Len(out) = Len(Merged)
    /\ Len(enriched) = i - 1
    /\ \A j \in 1..Len(out) : SameIdentity(out[j], Merged[j])
    /\ \A j \in 1..Len(enriched) : SameIdentity(enriched[j], Merged[j])

\* C20 witness: the pass over two listings is over, the last visit raised,
\* and a listing with a dealer and a location had a field filled in
C20_Witness ==
  /\ pc = "enrich" /\ i > Len(out) /\ Len(enriched) = 2 /\ last = "raised"
  /\ \E j \in 1..2 :
       /\ enriched[j].dealer # None /\ enriched[j].location # None
       /\ enriched[j] # Merged[j]

====
